---- MODULE Spec2Model ----
(***************************************************************************)
(* Model of the API rate limiter of src/main.py: three FastAPI handlers    *)
(* (register, check_limit, get_logs) run by a pool of worker threads over  *)
(* one SQLite database with the tables api_keys and logs.  Every handler   *)
(* is split at the points where it reads or writes shared state (a SQL     *)
(* statement, a read of the wall clock), so that the interleavings of      *)
(* concurrent requests are those the code allows.                          *)
(***************************************************************************)
EXTENDS Integers, Sequences, FiniteSets, TLC

(* ------------------------------ bounds --------------------------------- *)

\* Seconds in a calendar day (86400 in reality, scaled down).
SecsPerDay == 2

\* Last second the wall clock reaches.
MaxTime == 2

\* Largest rate_limit a register request asks for.
MaxQuota == 2

\* Largest limit a get_logs request asks for.
MaxLimit == 1

\* Number of requests served in one behaviour.
MaxCalls == 4

\* Worker threads of the server, each serving one request at a time.
Threads == {"t1", "t2"}

\* Values of RegisterRequest.email, in the order in which requests first use them.
Emails == <<"a@x.com", "b@x.com">>

\* Values of RegisterRequest.rate_limit (an unconstrained int).
Quotas == 0..MaxQuota

\* Values of the limit query parameter (an unconstrained int).
Limits == -1..MaxLimit

VARIABLES
    now,        \* the wall clock, in seconds
    api_keys,   \* table api_keys: a set of rows
    logs,       \* table logs: a sequence of rows, the index is the AUTOINCREMENT id
    pc,         \* per thread: the place its handler has reached
    local,      \* per thread: the request it serves and the handler's local variables
    issued,     \* the number of keys generate_api_key has returned
    calls,      \* the number of requests taken so far
    sent,       \* the call that returned in the last step and its response, if any
    decisions   \* the check_limit calls answered 200 or 429, in order of return

vars == <<now, api_keys, logs, pc, local, issued, calls, sent, decisions>>

\* generate_api_key(): "sk_" and 24 random bytes, taken to differ from every key
\* returned before; the n-th key returned is written n.
generate_api_key == issued + 1

\* Values of the X-API-Key header: the keys returned so far, and 0 for a string
\* that generate_api_key never returned.
Keys == 0..issued

(* --------------------------- time and dates ---------------------------- *)

\* datetime.now().strftime("%Y-%m-%d %H:%M:%S"): the date and the time of day,
\* truncated to the second.
Strftime(t) == [date |-> t \div SecsPerDay, time |-> t % SecsPerDay]

\* get_today(): datetime.now().strftime("%Y-%m-%d").
get_today == now \div SecsPerDay

\* SQLite's DATE(timestamp): the date part of a timestamp.
DATE(ts) == ts.date

\* Text comparison of two timestamps of the fixed-width format.
TimestampLess(a, b) == a.date < b.date \/ (a.date = b.date /\ a.time < b.time)

(* ------------------------------ queries -------------------------------- *)

\* SELECT ... FROM api_keys WHERE email = ?
SelectByEmail(email) == {r \in api_keys : r.email = email}

\* The lookup with its WHERE clause lost: every row matches.
SelectByKey_NoWhere(x_api_key) == api_keys

\* SELECT ... FROM api_keys WHERE api_key = ?
SelectByKey(x_api_key) == {r \in api_keys : r.api_key = x_api_key}

\* The ids of the rows of logs of one key.
RowsOf(api_key) == {i \in 1..Len(logs) : logs[i].api_key = api_key}

\* The count with the date condition lost: the rows of every day count.
CountLogs_NoDate(api_key, today) == Cardinality(RowsOf(api_key))

\* The count with the key condition lost: the rows of every key count.
CountLogs_AnyKey(api_key, today) ==
    Cardinality({i \in 1..Len(logs) : DATE(logs[i].timestamp) = today})

\* SELECT COUNT(*) FROM logs WHERE api_key = ? AND DATE(timestamp) = ?
CountLogs(api_key, today) ==
    Cardinality({i \in RowsOf(api_key) : DATE(logs[i].timestamp) = today})

\* Logging that records admitted requests only.
InsertLog_SuccessOnly(api_key, timestamp, endpoint, status) ==
    IF status = "success"
    THEN Append(logs, [api_key |-> api_key, timestamp |-> timestamp,
                       endpoint |-> endpoint, status |-> status])
    ELSE logs

\* Logging by INSERT OR REPLACE keyed on api_key: the new row takes the place
\* of the last row of the key.
InsertLog_Replace(api_key, timestamp, endpoint, status) ==
    LET row == [api_key |-> api_key, timestamp |-> timestamp,
                endpoint |-> endpoint, status |-> status]
        ids == RowsOf(api_key)
    IN IF ids = {} THEN Append(logs, row)
       ELSE [logs EXCEPT ![CHOOSE i \in ids : \A j \in ids : j <= i] = row]

\* INSERT INTO logs (api_key, timestamp, endpoint, status) VALUES (?, ?, ?, ?)
InsertLog(api_key, timestamp, endpoint, status) ==
    Append(logs, [api_key |-> api_key, timestamp |-> timestamp,
                  endpoint |-> endpoint, status |-> status])

\* SELECT ... FROM logs WHERE api_key = ? ORDER BY timestamp DESC: the row ids in
\* every order the statement allows (rows of equal timestamp come in any order).
OrderByTimestampDesc(api_key) ==
    LET ids == RowsOf(api_key)
        n == Cardinality(ids)
    IN {s \in [1..n -> ids] :
            /\ \A a, b \in 1..n : a # b => s[a] # s[b]
            /\ \A a, b \in 1..n :
                a < b => ~TimestampLess(logs[s[a]].timestamp, logs[s[b]].timestamp)}

\* LIMIT ?: SQLite takes a negative limit as no limit.
Limit(s, limit) ==
    IF limit < 0 \/ limit >= Len(s) THEN s ELSE SubSeq(s, 1, limit)

\* LogEntry(timestamp=log[0], endpoint=log[1], status=log[2]) for each fetched row.
LogEntries(rows) ==
    [j \in 1..Len(rows) |->
        [timestamp |-> logs[rows[j]].timestamp, endpoint |-> logs[rows[j]].endpoint,
         status |-> logs[rows[j]].status]]

(* ----------------------------- responses ------------------------------- *)

\* raise HTTPException(status_code=..., detail=...)
HTTPException(status_code, detail) == [status_code |-> status_code, detail |-> detail]

\* An exception no handler catches (sqlite3.IntegrityError): the server answers 500.
Unhandled(exception) == [status_code |-> 500, exception |-> exception]

RegisterResponse(api_key, email, rate_limit) ==
    [status_code |-> 200, api_key |-> api_key, email |-> email,
     rate_limit |-> rate_limit, message |-> "API key created successfully!"]

\* The remaining quota without the current request subtracted.
Remaining_NoSubtract(rate_limit, current_usage) == rate_limit - current_usage

\* remaining = rate_limit - current_usage - 1
Remaining(rate_limit, current_usage) == rate_limit - current_usage - 1

RateLimitResponse(current_usage, rate_limit) ==
    [status_code |-> 200, current_usage |-> current_usage + 1,
     rate_limit |-> rate_limit, remaining |-> Remaining(rate_limit, current_usage),
     status |-> "allowed"]

\* No call returned in the last step.
Nothing == [call |-> [op |-> "none"], response |-> [status_code |-> 0]]

\* The call of thread p returns `response` to its caller: the thread is free again.
Return(p, frame, response) ==
    /\ sent' = [call |-> frame, response |-> response]
    /\ decisions' =
            IF frame.op = "check_limit" /\ response.status_code \in {200, 429}
            THEN Append(decisions, [call |-> frame, response |-> response])
            ELSE decisions
    /\ pc' = [pc EXCEPT ![p] = "idle"]
    /\ local' = [local EXCEPT ![p] = [op |-> "none"]]

\* The handler of thread p goes on to `label` with the local variables `frame`.
Goto(p, label, frame) ==
    /\ pc' = [pc EXCEPT ![p] = label]
    /\ local' = [local EXCEPT ![p] = frame]
    /\ sent' = Nothing
    /\ UNCHANGED decisions

InFlight == {p \in Threads : pc[p] # "idle"}

\* conn = sqlite3.connect('api_limiter.db'): the call holds one more open
\* connection (frame.open counts the connections the call has opened and not
\* closed).
Connect(frame) == [open |-> frame.open + 1] @@ frame

\* conn.close()
Close(frame) == [open |-> frame.open - 1] @@ frame

\* A thread takes a new request while the behaviour has requests left.
Accepts(p) ==
    /\ pc[p] = "idle"
    /\ calls < MaxCalls
    /\ calls' = calls + 1

(* ------------------------------ register ------------------------------- *)

\* The emails of the credentials registered and of the registrations under way.
UsedEmails ==
    {r.email : r \in api_keys}
        \cup {local[p].email : p \in {q \in Threads : local[q].op = "register"}}

\* The emails a register request can carry: any email used before, and the
\* first one not used yet (the emails being interchangeable, which email a
\* request is the first to use makes no difference).
RequestEmails ==
    {Emails[i] : i \in {j \in DOMAIN Emails : j = 1 \/ Emails[j - 1] \in UsedEmails}}

\* Lines 105-116: the email check and, for a new email, the new key.  The column
\* created_at is written at registration and read nowhere: the model leaves it out.
RegisterSelect(p) ==
    /\ Accepts(p)
    /\ \E email \in RequestEmails, rate_limit \in Quotas :
        LET frame == Connect([op |-> "register", email |-> email,
                              rate_limit |-> rate_limit, open |-> 0])
        IN IF SelectByEmail(email) # {}
           THEN /\ Return(p, Close(frame),
                          HTTPException(400, "Email already registered"))
                /\ UNCHANGED issued
           ELSE /\ Goto(p, "insert_key", [api_key |-> generate_api_key] @@ frame)
                /\ issued' = issued + 1
    /\ UNCHANGED <<now, api_keys, logs>>

\* Lines 119-132: the INSERT, which the PRIMARY KEY and UNIQUE constraints of
\* api_keys (lines 18-19) reject with sqlite3.IntegrityError (the exception
\* leaves register before its conn.close()), then the commit, the close and
\* the response.
RegisterInsert(p) ==
    /\ pc[p] = "insert_key"
    /\ LET f == local[p]
       IN IF SelectByKey(f.api_key) # {} \/ SelectByEmail(f.email) # {}
          THEN /\ Return(p, f, Unhandled("sqlite3.IntegrityError"))
               /\ UNCHANGED api_keys
          ELSE /\ api_keys' = api_keys \cup
                    {[api_key |-> f.api_key, email |-> f.email,
                      rate_limit |-> f.rate_limit]}
               /\ Return(p, Close(f),
                         RegisterResponse(f.api_key, f.email, f.rate_limit))
    /\ UNCHANGED <<now, logs, issued, calls>>

(* ----------------------------- check_limit ----------------------------- *)

\* Lines 137-148: the key lookup.
CheckLookup(p) ==
    /\ Accepts(p)
    /\ \E x_api_key \in Keys :
        LET frame == Connect([op |-> "check_limit", x_api_key |-> x_api_key,
                              open |-> 0])
            result == SelectByKey(x_api_key)
        IN IF result = {}
           THEN Return(p, Close(frame), HTTPException(401, "Invalid API key"))
           ELSE \E row \in result :
                    Goto(p, "count_today", [rate_limit |-> row.rate_limit] @@ frame)
    /\ UNCHANGED <<now, api_keys, logs, issued>>

\* Lines 74-77, in count_todays_requests: the connection and today = get_today().
CountGetToday(p) ==
    /\ pc[p] = "count_today"
    /\ Goto(p, "count_query", [today |-> get_today] @@ Connect(local[p]))
    /\ UNCHANGED <<now, api_keys, logs, issued, calls>>

\* Lines 79-86 and 149: the COUNT query.
CountQuery(p) ==
    /\ pc[p] = "count_query"
    /\ Goto(p, "add_log",
            [current_usage |-> CountLogs(local[p].x_api_key, local[p].today)]
                @@ Close(local[p]))
    /\ UNCHANGED <<now, api_keys, logs, issued, calls>>

\* The comparison with > for >=.
LogStatus_Greater(current_usage, rate_limit) ==
    IF current_usage > rate_limit THEN "rate_limit_exceeded" ELSE "success"

\* The comparison with = for >=.
LogStatus_Equal(current_usage, rate_limit) ==
    IF current_usage = rate_limit THEN "rate_limit_exceeded" ELSE "success"

\* Lines 152-153 and 158: the status to log.
LogStatus(current_usage, rate_limit) ==
    IF current_usage >= rate_limit THEN "rate_limit_exceeded" ELSE "success"

\* Lines 152-158 and 90-93: the decision, and the connection and the timestamp
\* add_log takes.
AddLogTimestamp(p) ==
    /\ pc[p] = "add_log"
    /\ Goto(p, "insert_log",
            [status |-> LogStatus(local[p].current_usage, local[p].rate_limit),
             timestamp |-> Strftime(now)] @@ Connect(local[p]))
    /\ UNCHANGED <<now, api_keys, logs, issued, calls>>

\* Lines 94-100, then 154-155 or 159-168: the INSERT, commit and close of
\* add_log, the close of check_limit's own connection, and the response.
AddLogInsert(p) ==
    /\ pc[p] = "insert_log"
    /\ LET f == Close(Close(local[p]))
       IN /\ logs' = InsertLog(f.x_api_key, f.timestamp, "/check-limit", f.status)
          /\ IF f.status = "rate_limit_exceeded"
             THEN Return(p, f, HTTPException(429, "Rate limit exceeded"))
             ELSE Return(p, f, RateLimitResponse(f.current_usage, f.rate_limit))
    /\ UNCHANGED <<now, api_keys, issued, calls>>

(* ------------------------------- get_logs ------------------------------ *)

\* Lines 173-180: the key check.
GetLogsVerify(p) ==
    /\ Accepts(p)
    /\ \E x_api_key \in Keys, limit \in Limits :
        LET frame == Connect([op |-> "get_logs", x_api_key |-> x_api_key,
                              limit |-> limit, open |-> 0])
        IN IF SelectByKey(x_api_key) = {}
           THEN Return(p, Close(frame), HTTPException(401, "Invalid API key"))
           ELSE Goto(p, "select_logs", frame)
    /\ UNCHANGED <<now, api_keys, logs, issued>>

\* Lines 183-202: the query and the response.  rowids are the ids of the rows
\* fetched, in the order fetched.
GetLogsQuery(p) ==
    /\ pc[p] = "select_logs"
    /\ \E s \in OrderByTimestampDesc(local[p].x_api_key) :
        LET rows == Limit(s, local[p].limit)
        IN Return(p, [rowids |-> rows] @@ Close(local[p]),
                  [status_code |-> 200, total_logs |-> Len(rows),
                   logs |-> LogEntries(rows)])
    /\ UNCHANGED <<now, api_keys, logs, issued, calls>>

(* ------------------------------ the clock ------------------------------ *)

\* The wall clock advances by a second.
Tick ==
    /\ now < MaxTime
    /\ now' = now + 1
    /\ sent' = Nothing
    /\ UNCHANGED <<api_keys, logs, pc, local, issued, calls, decisions>>

(* --------------------------- specifications ---------------------------- *)

\* init_db() on an empty database, no request being served.
Init ==
    /\ now = 0
    /\ api_keys = {}
    /\ logs = <<>>
    /\ pc = [p \in Threads |-> "idle"]
    /\ local = [p \in Threads |-> [op |-> "none"]]
    /\ calls = 0
    /\ sent = Nothing
    /\ decisions = <<>>
    /\ issued = 0

Step(p) ==
    \/ RegisterSelect(p)
    \/ RegisterInsert(p)
    \/ CheckLookup(p)
    \/ CountGetToday(p)
    \/ CountQuery(p)
    \/ AddLogTimestamp(p)
    \/ AddLogInsert(p)
    \/ GetLogsVerify(p)
    \/ GetLogsQuery(p)

\* Requests served concurrently by the worker threads.
Next == Tick \/ \E p \in Threads : Step(p)

Spec == Init /\ [][Next]_vars

\* Requests served one after the other: a request starts only when none is
\* being served.
Alone(p) == InFlight \subseteq {p}

NextSeq ==
    \/ Tick
    \/ \E p \in Threads :
        \/ Alone(p) /\ RegisterSelect(p)
        \/ Alone(p) /\ RegisterInsert(p)
        \/ Alone(p) /\ CheckLookup(p)
        \/ Alone(p) /\ CountGetToday(p)
        \/ Alone(p) /\ CountQuery(p)
        \/ Alone(p) /\ AddLogTimestamp(p)
        \/ Alone(p) /\ AddLogInsert(p)
        \/ Alone(p) /\ GetLogsVerify(p)
        \/ Alone(p) /\ GetLogsQuery(p)

SpecSeq == Init /\ [][NextSeq]_vars

\* A statement of the handler of thread p (a connect, an execute, a commit)
\* raises sqlite3.OperationalError: the database is locked or cannot be read or
\* written.  No handler catches it: the statement changes nothing, the call
\* ends there and the server answers 500.  `failed` marks the call.
StorageError(p) ==
    /\ pc[p] # "idle"
    /\ Return(p, [failed |-> TRUE] @@ local[p], Unhandled("sqlite3.OperationalError"))
    /\ UNCHANGED <<now, api_keys, logs, issued, calls>>

\* Requests served concurrently over a database whose statements can fail.
NextStorage == Next \/ \E p \in Threads : StorageError(p)

SpecStorage == Init /\ [][NextStorage]_vars

(* ------------------------------ properties ----------------------------- *)

\* The keys of the registered credentials.
Registered == {r.api_key : r \in api_keys}

\* The calendar days the clock goes through.
Days == 0..(MaxTime \div SecsPerDay)

\* The rows of logs of one key that record an admitted request of day d.
AdmittedIn(api_key, d) ==
    {i \in RowsOf(api_key) :
        logs[i].status = "success" /\ DATE(logs[i].timestamp) = d}

\* The decided check_limit calls of one key, in order of return.
DecisionsOf(api_key) ==
    LET OfKey(e) == e.call.x_api_key = api_key
    IN SelectSeq(decisions, OfKey)

\* Every decided check of the key counted in day d and logged in day d.
SingleWindow(ds, d) ==
    \A n \in 1..Len(ds) : ds[n].call.today = d /\ DATE(ds[n].call.timestamp) = d

\* The threads serving a check_limit call with the key.
Checking(api_key) ==
    {p \in Threads : local[p].op = "check_limit" /\ local[p].x_api_key = api_key}

Admitted(ds) == {n \in 1..Len(ds) : ds[n].response.status_code = 200}

Denied(ds) == {n \in 1..Len(ds) : ds[n].response.status_code = 429}

\* C1: for every registered credential and every calendar day, the number of
\* rows of logs of that credential with status success stamped in that day is
\* at most the credential's rate_limit, whatever the interleaving of the
\* check_limit calls.
C1_QuotaInvariant ==
    \A r \in api_keys, d \in Days :
        Cardinality(AdmittedIn(r.api_key, d)) <= r.rate_limit

\* C2: when more check_limit calls than the rate_limit Q of a credential have
\* been made for it, all of them within one calendar day and all of them
\* returned, exactly Q of them were admitted and the others denied.
C2_ExactlyQuotaAdmitted ==
    \A r \in api_keys :
        LET ds == DecisionsOf(r.api_key)
        IN (/\ Checking(r.api_key) = {}
            /\ Len(ds) > r.rate_limit
            /\ \E d \in Days : SingleWindow(ds, d))
           => /\ Cardinality(Admitted(ds)) = r.rate_limit
              /\ Cardinality(Denied(ds)) = Len(ds) - r.rate_limit

\* C3: no two admitted check_limit calls of one credential that counted the
\* usage of the same calendar day return the same current_usage.
C3_DistinctUsedCounts ==
    \A i, j \in DOMAIN decisions :
        (/\ i < j
         /\ decisions[i].call.x_api_key = decisions[j].call.x_api_key
         /\ decisions[i].call.today = decisions[j].call.today
         /\ decisions[i].response.status_code = 200
         /\ decisions[j].response.status_code = 200)
        => decisions[i].response.current_usage # decisions[j].response.current_usage

\* C4: a check_limit or get_logs call goes past its key lookup only with a
\* registered key, and is answered 401 only for an unregistered one; the step
\* that answers 401 leaves both tables as they were; and every row of logs has
\* the key of a registered credential.
C4_UnknownKeyWritesNothing ==
    [][/\ \A p \in Threads :
            (pc[p] = "idle" /\ pc'[p] # "idle"
                /\ local'[p].op \in {"check_limit", "get_logs"})
            => local'[p].x_api_key \in Registered
       /\ (sent'.response.status_code = 401 /\ sent' # sent)
            => /\ sent'.call.x_api_key \notin Registered
               /\ logs' = logs
               /\ api_keys' = api_keys
       /\ \A i \in DOMAIN logs' : logs'[i].api_key \in Registered']_vars

\* C4 witness: a check_limit call with an unregistered key was just answered
\* 401 while the logs table holds rows.
C4_Witness ==
    /\ sent.call.op = "check_limit"
    /\ sent.response.status_code = 401
    /\ logs # <<>>

\* C5: with the requests served one after the other, as long as every decided
\* check_limit call of a credential with rate_limit Q lies within one calendar
\* day, the n-th of them is admitted with remaining = Q - n for n <= Q and
\* denied for n > Q.
C5_MonotonicRemaining ==
    \A r \in api_keys :
        LET ds == DecisionsOf(r.api_key)
        IN (\E d \in Days : SingleWindow(ds, d))
           => \A n \in 1..Len(ds) :
                IF n <= r.rate_limit
                THEN /\ ds[n].response.status_code = 200
                     /\ ds[n].response.remaining = r.rate_limit - n
                ELSE ds[n].response.status_code = 429

\* C5 witness: a credential with rate_limit 2 after three sequential calls of
\* one day: admitted, admitted, denied.
C5_Witness ==
    \E r \in api_keys :
        LET ds == DecisionsOf(r.api_key)
        IN /\ r.rate_limit = 2
           /\ Len(ds) = 3
           /\ \E d \in Days : SingleWindow(ds, d)
           /\ ds[3].response.status_code = 429

\* C6: the response to a denied check_limit call carries rate_limit,
\* current_usage and remaining, with remaining = 0.
C6_DeniedCarriesCounts ==
    sent.response.status_code = 429
    => /\ {"rate_limit", "current_usage", "remaining"} \subseteq DOMAIN sent.response
       /\ sent.response.remaining = 0

\* C7: for every key, the number of rows of logs of that key equals the number
\* of check_limit calls of that key that were decided and have returned,
\* admitted or denied.
C7_OneRecordPerCheck ==
    \A k \in Keys : Cardinality(RowsOf(k)) = Len(DecisionsOf(k))

\* C7 witness: a credential with an admitted and a denied call, two rows.
C7_Witness ==
    \E k \in Keys :
        LET ds == DecisionsOf(k)
        IN Admitted(ds) # {} /\ Denied(ds) # {} /\ Cardinality(RowsOf(k)) >= 2

\* The decided calls of the key of decisions[i] that returned before it and
\* whose row is stamped in day d.
EarlierIn(i, d) ==
    {j \in 1..(i - 1) :
        /\ decisions[j].call.x_api_key = decisions[i].call.x_api_key
        /\ DATE(decisions[j].call.timestamp) = d}

\* C8: the usage a check_limit call counts for the day it read is at most the
\* number of rows of its key stamped in that day by the calls that returned
\* before it, rows of other days adding nothing; so a call for a credential
\* with rate_limit >= 1 that finds no row of its day is admitted, however many
\* rows the credential has in other days.
C8_WindowIsolation ==
    \A i \in DOMAIN decisions :
        LET e == decisions[i]
            earlier == EarlierIn(i, e.call.today)
        IN /\ e.call.current_usage <= Cardinality(earlier)
           /\ (earlier = {} /\ e.call.rate_limit >= 1) => e.response.status_code = 200

\* C8 witness: a credential that used up its rate_limit in day 0 is admitted
\* by a call that counts in day 1.
C8_Witness ==
    \E i \in DOMAIN decisions :
        LET e == decisions[i]
        IN /\ e.call.today = 1
           /\ e.response.status_code = 200
           /\ e.call.rate_limit >= 1
           /\ Cardinality(AdmittedIn(e.call.x_api_key, 0)) >= e.call.rate_limit

\* C9: a register call that does not create the credential of its email while
\* the directory holds one for that email is answered 400 "Email already
\* registered", and the directory holds at most one credential per email.
C9_DuplicateOwner ==
    /\ (/\ sent.call.op = "register"
        /\ sent.response.status_code # 200
        /\ SelectByEmail(sent.call.email) # {})
       => sent.response.status_code = 400
    /\ \A r1, r2 \in api_keys : r1.email = r2.email => r1 = r2

\* C10: get_logs on a registered key with a limit >= 0 (no answer has a length
\* below zero) returns at most `limit` rows of that key,
\* as many as the limit and the table allow, a row inserted later before every
\* row inserted earlier, and no row left out is newer than a row returned.
C10_NewestFirst ==
    (sent.call.op = "get_logs" /\ sent.response.status_code = 200
        /\ sent.call.limit >= 0)
    => LET rows == sent.call.rowids
           all == RowsOf(sent.call.x_api_key)
           got == {rows[a] : a \in 1..Len(rows)}
       IN /\ Len(rows) <= sent.call.limit
          /\ Len(rows) = sent.call.limit \/ Len(rows) = Cardinality(all)
          /\ got \subseteq all
          /\ \A a, b \in 1..Len(rows) : a < b => rows[a] > rows[b]
          /\ \A i \in all \ got, j \in got : i < j

\* C11: no step changes or removes a row of logs or a row of api_keys: the rows
\* of logs before the step are the first rows after it, and every credential
\* of before the step is there after it with the same key, email and
\* rate_limit.
C11_AppendOnly ==
    [][/\ \A i \in DOMAIN logs : i \in DOMAIN logs' /\ logs'[i] = logs[i]
       /\ \A r \in api_keys : r \in api_keys']_vars

\* C11 witness: two credentials and two rows of logs.
C11_Witness == Cardinality(api_keys) = 2 /\ Len(logs) >= 2

\* C12: a check_limit call in which a storage statement failed is not admitted
\* and ends with a result of the handler, not with an exception it did not
\* handle, that differs from the 429 of a used-up quota and from the 401 of an
\* unknown key; and every admitted call has its success row in logs.
C12_FailClosed ==
    /\ (sent.call.op = "check_limit" /\ "failed" \in DOMAIN sent.call)
       => /\ sent.response.status_code \notin {200, 401, 429}
          /\ "exception" \notin DOMAIN sent.response
    /\ \A i \in DOMAIN decisions :
        decisions[i].response.status_code = 200
        => \E j \in RowsOf(decisions[i].call.x_api_key) :
            /\ logs[j].status = "success"
            /\ logs[j].timestamp = decisions[i].call.timestamp

\* C13: every credential of the directory has a rate_limit >= 1.
C13_PositiveQuota == \A r \in api_keys : r.rate_limit >= 1

\* C14: with the requests served one after the other, the usage a check_limit
\* call has counted is the number of rows of its key with status success
\* stamped in the day it read; rows of denied requests do not count.
C14_CountsAdmittedOnly ==
    \A p \in Threads :
        pc[p] \in {"add_log", "insert_log"}
        => local[p].current_usage
            = Cardinality(AdmittedIn(local[p].x_api_key, local[p].today))

\* C15: when a check_limit call on a credential with rate_limit Q has been
\* denied, logs holds at least Q success rows of that credential stamped in the
\* day the call counted.
C15_NoSpuriousDenial ==
    \A i \in DOMAIN decisions :
        decisions[i].response.status_code = 429
        => Cardinality(AdmittedIn(decisions[i].call.x_api_key,
                                  decisions[i].call.today))
            >= decisions[i].call.rate_limit

\* The decided calls of the key that were denied having counted day d.
DeniedIn(api_key, d) ==
    {i \in DOMAIN decisions :
        /\ decisions[i].call.x_api_key = api_key
        /\ decisions[i].call.today = d
        /\ decisions[i].response.status_code = 429}

\* C16: a check_limit call that counts the usage of a day after a call of the
\* same credential has returned denied for that day (so every call that starts
\* after that return) counts a usage that has reached the rate_limit; a call
\* whose count has reached the rate_limit logs a denial, and a call is answered
\* 429 exactly when a denial is what it logged.
C16_ExhaustedSticky ==
    [][/\ \A p \in Threads :
            (/\ pc[p] = "count_query" /\ pc'[p] = "add_log"
             /\ DeniedIn(local[p].x_api_key, local[p].today) # {})
            => local'[p].current_usage >= local'[p].rate_limit
       /\ \A p \in Threads :
            (pc[p] = "add_log" /\ pc'[p] = "insert_log")
            => (local'[p].status = "rate_limit_exceeded")
                = (local[p].current_usage >= local[p].rate_limit)
       /\ \A i \in DOMAIN decisions' :
            (decisions'[i].response.status_code = 429)
                = (decisions'[i].call.status = "rate_limit_exceeded")]_vars

\* C16 witness: two denied calls of one credential for one day, the second
\* having returned after the first.
C16_Witness ==
    \E k \in Keys, d \in Days : Cardinality(DeniedIn(k, d)) >= 2

\* C17: the step in which a check_limit call of key A inserts its row appends
\* one row, of key A, and leaves the usage count of every other key, for every
\* day, as it was; no other step changes logs.
C17_Independent ==
    [][/\ \A p \in Threads :
            (pc[p] = "insert_log" /\ pc'[p] = "idle" /\ logs' # logs)
            => /\ Len(logs') = Len(logs) + 1
               /\ logs'[Len(logs')].api_key = local[p].x_api_key
               /\ \A k \in Keys \ {local[p].x_api_key}, d \in Days :
                    CountLogs(k, d)' = CountLogs(k, d)
       /\ (\A p \in Threads : ~(pc[p] = "insert_log" /\ pc'[p] = "idle"))
            => \A k \in Keys, d \in Days : CountLogs(k, d)' = CountLogs(k, d)]_vars

\* C17 witness: two credentials, each with a row in logs.
C17_Witness ==
    \E k1, k2 \in Registered : k1 # k2 /\ RowsOf(k1) # {} /\ RowsOf(k2) # {}

\* C18: every call has closed all the connections it opened when it returns
\* or raises.
C18_ConnectionsClosed == sent.call.op # "none" => sent.call.open = 0

\* C19: an admitted check_limit call on a credential with rate_limit Q that
\* counted `used` returns current_usage = used + 1 and remaining = Q - used - 1,
\* with 1 <= current_usage <= Q, remaining >= 0 and current_usage + remaining = Q.
C19_AdmittedDecision ==
    \A i \in DOMAIN decisions :
        LET e == decisions[i]
        IN e.response.status_code = 200
           => \A r \in SelectByKey(e.call.x_api_key) :
                /\ e.response.current_usage = e.call.current_usage + 1
                /\ e.response.remaining = r.rate_limit - e.call.current_usage - 1
                /\ e.response.current_usage + e.response.remaining = r.rate_limit
                /\ e.response.rate_limit = r.rate_limit
                /\ 1 <= e.response.current_usage
                /\ e.response.current_usage <= r.rate_limit
                /\ e.response.remaining >= 0

\* C19 witness: the second admitted call of a credential with rate_limit 2,
\* answered with current_usage 2 and remaining 0.
C19_Witness ==
    \E i \in DOMAIN decisions :
        /\ decisions[i].response.status_code = 200
        /\ decisions[i].call.rate_limit = 2
        /\ decisions[i].response.current_usage = 2

\* C20: the row a check_limit call inserts is stamped in the day the call read
\* when it counted.
C20_SameWindow ==
    \A i \in DOMAIN decisions :
        DATE(decisions[i].call.timestamp) = decisions[i].call.today

====
